---- MODULE Spec2Model ----
(***************************************************************************)
(* Model of stylus-sdk/src/abi/export.rs: the ABI print driver print_abi,  *)
(* the identifier escaper underscore_if_sol, and the lazily initialised    *)
(* pattern matchers UINT_REGEX, INT_REGEX and BYTES_REGEX.                 *)
(*                                                                         *)
(* A &str is a sequence of characters; a character is a one-character      *)
(* string, except the non-ASCII decimal digit U+0663 (ARABIC-INDIC DIGIT   *)
(* THREE), written "U+0663".  A usize is 64 bits wide; since it does not   *)
(* fit a model integer it is held as three base-10^7 limbs <<hi, mid, lo>>.*)
(***************************************************************************)
EXTENDS Integers, Sequences, FiniteSets, TLC

VARIABLES
    name,      \* underscore_if_sol: the argument `name`
    pc,        \* underscore_if_sol: position in the body
    result,    \* underscore_if_sol: the returned String
    round,     \* 1 for the first call, 2 for the call on the emitted identifier
    first,     \* the String returned by the first call
    entity,    \* print_abi: the behaviour of T::fmt_abi
    ppc,       \* print_abi: position in the body
    out,       \* the text written to standard output, one entry per write
    fpos,      \* how many pieces T::fmt_abi has written
    fmtCalls,  \* how many times T::fmt_abi has been invoked
    fmtRes,    \* what T::fmt_abi returned: "none", "Ok" or "Err"
    regex,     \* state of each lazy static: "uninit", "running" or "ready"
    inits,     \* how many times each lazy static's initialiser has run
    tname,     \* per thread: the argument of its call
    tpc,       \* per thread: position in underscore_if_sol
    tres       \* per thread: the returned String

escVars == <<name, pc, result, round, first>>
prtVars == <<entity, ppc, out, fpos, fmtCalls, fmtRes>>
thrVars == <<regex, inits, tname, tpc, tres>>
vars == <<name, pc, result, round, first, entity, ppc, out, fpos, fmtCalls,
          fmtRes, regex, inits, tname, tpc, tres>>

-----------------------------------------------------------------------------
(* Bounds of the model *)

\* Digit groups of every length 1..MaxDigits over DigitClass are enumerated.
MaxDigits == 2
\* T::fmt_abi writes at most MaxPieces pieces.
MaxPieces == 2
\* Number of threads calling underscore_if_sol concurrently.
NumThreads == 2

-----------------------------------------------------------------------------
(* Characters and strings *)

AsciiDigits == {"0", "1", "2", "3", "4", "5", "6", "7", "8", "9"}

\* \d of the regex crate is Unicode-aware: it is \p{Nd}, not [0-9].
DigitClass == AsciiDigits \cup {"U+0663"}

DigitValue(c) ==
    CASE c = "0" -> 0 [] c = "1" -> 1 [] c = "2" -> 2 [] c = "3" -> 3
      [] c = "4" -> 4 [] c = "5" -> 5 [] c = "6" -> 6 [] c = "7" -> 7
      [] c = "8" -> 8 [] c = "9" -> 9

Upper ==
    ("a" :> "A") @@ ("b" :> "B") @@ ("c" :> "C") @@ ("d" :> "D") @@
    ("e" :> "E") @@ ("f" :> "F") @@ ("g" :> "G") @@ ("h" :> "H") @@
    ("i" :> "I") @@ ("j" :> "J") @@ ("k" :> "K") @@ ("l" :> "L") @@
    ("m" :> "M") @@ ("n" :> "N") @@ ("o" :> "O") @@ ("p" :> "P") @@
    ("q" :> "Q") @@ ("r" :> "R") @@ ("s" :> "S") @@ ("t" :> "T") @@
    ("u" :> "U") @@ ("v" :> "V") @@ ("w" :> "W") @@ ("x" :> "X") @@
    ("y" :> "Y") @@ ("z" :> "Z")

ToUpper(c) == IF c \in DOMAIN Upper THEN Upper[c] ELSE c

ToLower(c) ==
    IF \E l \in DOMAIN Upper : Upper[l] = c
    THEN CHOOSE l \in DOMAIN Upper : Upper[l] = c
    ELSE c

StartsWith(s, p) == Len(s) >= Len(p) /\ SubSeq(s, 1, Len(p)) = p

-----------------------------------------------------------------------------
(* usize and str::parse::<usize> *)

Limb == 10 ^ 7

\* usize::MAX = 2^64 - 1 = 18446744073709551615
USIZE_MAX == <<184467, 4407370, 9551615>>

LimbsLeq(a, b) ==
    \/ a[1] < b[1]
    \/ a[1] = b[1] /\ a[2] < b[2]
    \/ a[1] = b[1] /\ a[2] = b[2] /\ a[3] <= b[3]

\* v % m for a usize v held in limbs
UsizeMod(v, m) ==
    (((v[1] % m) * (Limb % m) * (Limb % m)) + ((v[2] % m) * (Limb % m)) + (v[3] % m)) % m

\* v * 10 + d, not yet compared with usize::MAX
MulAdd(v, d) ==
    LET lo  == v[3] * 10 + d
        mid == v[2] * 10 + (lo \div Limb)
        hi  == v[1] * 10 + (mid \div Limb)
    IN  <<hi, mid % Limb, lo % Limb>>

RECURSIVE ParseFrom(_, _, _)
ParseFrom(s, i, acc) ==
    IF i > Len(s) THEN [ok |-> TRUE, val |-> acc]
    ELSE IF s[i] \notin AsciiDigits THEN [ok |-> FALSE, val |-> "InvalidDigit"]
    ELSE LET nxt == MulAdd(acc, DigitValue(s[i]))
         IN  IF LimbsLeq(nxt, USIZE_MAX)
             THEN ParseFrom(s, i + 1, nxt)
             ELSE [ok |-> FALSE, val |-> "PosOverflow"]

\* <usize as FromStr>::from_str: Ok(value) or Err(ParseIntError)
ParseUsize(s) ==
    IF s = <<>> THEN [ok |-> FALSE, val |-> "Empty"]
    ELSE ParseFrom(s, 1, <<0, 0, 0>>)

-----------------------------------------------------------------------------
(* The pattern matchers *)

UINT_REGEX  == [prefix |-> <<"u","i","n","t">>]
INT_REGEX   == [prefix |-> <<"i","n","t">>]
BYTES_REGEX == [prefix |-> <<"b","y","t","e","s">>]

\* A matcher with the leading ^ left out of its pattern.
CapturesUnanchored(re, s) ==
    LET P == Len(re.prefix)
        starts == {k \in 1..Len(s) :
                     /\ Len(s) - k + 1 > P
                     /\ SubSeq(s, k, k + P - 1) = re.prefix
                     /\ \A i \in (k + P)..Len(s) : s[i] \in DigitClass}
    IN  IF starts = {} THEN <<>>
        ELSE LET k == CHOOSE k \in starts : \A j \in starts : k <= j
             IN  <<SubSeq(s, k + P, Len(s))>>

\* Regex::captures for ^<prefix>(\d+)$: <<>> for None, <<group 1>> for Some.
Captures(re, s) ==
    IF /\ Len(s) > Len(re.prefix)
       /\ StartsWith(s, re.prefix)
       /\ \A i \in (Len(re.prefix) + 1)..Len(s) : s[i] \in DigitClass
    THEN <<SubSeq(s, Len(re.prefix) + 1, Len(s))>>
    ELSE <<>>

-----------------------------------------------------------------------------
(* underscore_if_sol *)

underscore(n) == <<" ", "_">> \o n

OtherTypes ==
    { <<"a","d","d","r","e","s","s">>,
      <<"b","o","o","l">>,
      <<"i","n","t">>,
      <<"u","i","n","t">> }

OtherWords ==
    { <<"i","s">>,
      <<"c","o","n","t","r","a","c","t">>,
      <<"i","n","t","e","r","f","a","c","e">> }

ReservedKeywords ==
    { <<"a","f","t","e","r">>,
      <<"a","l","i","a","s">>,
      <<"a","p","p","l","y">>,
      <<"a","u","t","o">>,
      <<"b","y","t","e">>,
      <<"c","a","s","e">>,
      <<"c","o","p","y","o","f">>,
      <<"d","e","f","a","u","l","t">>,
      <<"d","e","f","i","n","e">>,
      <<"f","i","n","a","l">>,
      <<"i","m","p","l","e","m","e","n","t","s">>,
      <<"i","n">>,
      <<"i","n","l","i","n","e">>,
      <<"l","e","t">>,
      <<"m","a","c","r","o">>,
      <<"m","a","t","c","h">>,
      <<"m","u","t","a","b","l","e">>,
      <<"n","u","l","l">>,
      <<"o","f">>,
      <<"p","a","r","t","i","a","l">>,
      <<"p","r","o","m","i","s","e">>,
      <<"r","e","f","e","r","e","n","c","e">>,
      <<"r","e","l","o","c","a","t","a","b","l","e">>,
      <<"s","e","a","l","e","d">>,
      <<"s","i","z","e","o","f">>,
      <<"s","t","a","t","i","c">>,
      <<"s","u","p","p","o","r","t","s">>,
      <<"s","w","i","t","c","h">>,
      <<"t","y","p","e","d","e","f">>,
      <<"t","y","p","e","o","f">>,
      <<"v","a","r">> }

\* A match on the tables that ignores letter case.
MatchesTableCaseless(n) ==
    LET low == [i \in 1..Len(n) |-> ToLower(n[i])]
    IN  low \in OtherTypes \cup OtherWords \cup ReservedKeywords

\* The first three groups of arms of `match name` that call underscore().
MatchesTable(n) == n \in OtherTypes \cup OtherWords \cup ReservedKeywords

\* The final `match name`: always returns.
MatchName(n) ==
    IF n = <<>> THEN <<>>
    ELSE IF MatchesTable(n) THEN underscore(n)
    ELSE <<" ">> \o n

\* One `if let Some(caps) = RE.captures(name)` block whose test is
\* bits % 8 == 0.  "Return": return underscore(); "Panic": the unwrap
\* of the parse panicked; "Next": fall through to the next statement.
BitsBranch(re, n) ==
    LET caps == Captures(re, n)
    IN  IF caps = <<>> THEN "Next"
        ELSE LET bits == ParseUsize(caps[1])
             IN  IF ~bits.ok THEN "Panic"
                 ELSE IF UsizeMod(bits.val, 8) = 0 THEN "Return"
                 ELSE "Next"

\* The block for BYTES_REGEX, whose test is bits <= 32.
BytesBranch(n) ==
    LET caps == Captures(BYTES_REGEX, n)
    IN  IF caps = <<>> THEN "Next"
        ELSE LET bits == ParseUsize(caps[1])
             IN  IF ~bits.ok THEN "Panic"
                 ELSE IF LimbsLeq(bits.val, <<0, 0, 32>>) THEN "Return"
                 ELSE "Next"

\* The whole call run alone: [kind |-> "Ok", val |-> String] or a panic.
underscore_if_sol(n) ==
    LET u == BitsBranch(UINT_REGEX, n)
        i == BitsBranch(INT_REGEX, n)
        b == BytesBranch(n)
        Ret == [kind |-> "Ok", val |-> underscore(n)]
        Pan == [kind |-> "Panic", val |-> <<>>]
    IN  IF u = "Return" THEN Ret ELSE IF u = "Panic" THEN Pan
        ELSE IF i = "Return" THEN Ret ELSE IF i = "Panic" THEN Pan
        ELSE IF b = "Return" THEN Ret ELSE IF b = "Panic" THEN Pan
        ELSE [kind |-> "Ok", val |-> MatchName(n)]

-----------------------------------------------------------------------------
(* The names the escaper is called with *)

Str_uint    == <<"u","i","n","t">>
Str_int     == <<"i","n","t">>
Str_bytes   == <<"b","y","t","e","s">>
Str_Address == <<"A","d","d","r","e","s","s">>
Str_foo     == <<"f","o","o">>

NumericPrefixes == {Str_uint, Str_int, Str_bytes}

ShortDigitGroups == UNION {[1..k -> DigitClass] : k \in 1..MaxDigits}

Digits_256     == <<"2","5","6">>
Digits_Max     == <<"1","8","4","4","6","7","4","4","0","7","3","7","0","9","5","5","1","6","1","5">>
Digits_MaxM7   == <<"1","8","4","4","6","7","4","4","0","7","3","7","0","9","5","5","1","6","0","8">>
Digits_Pow64   == <<"1","8","4","4","6","7","4","4","0","7","3","7","0","9","5","5","1","6","1","6">>
Digits_Pow64P1 == <<"1","8","4","4","6","7","4","4","0","7","3","7","0","9","5","5","1","6","1","7">>
Digits_Nines   == [i \in 1..21 |-> "9"]
Digits_Zeros8  == [i \in 1..22 |-> IF i = 22 THEN "8" ELSE "0"]
Digits_Zeros33 == [i \in 1..22 |-> IF i >= 21 THEN "3" ELSE "0"]

LongDigitGroups ==
    {Digits_256, Digits_Max, Digits_MaxM7, Digits_Pow64, Digits_Pow64P1,
     Digits_Nines, Digits_Zeros8, Digits_Zeros33}

DigitGroups == ShortDigitGroups \cup LongDigitGroups

NumericNames == {p \o d : p \in NumericPrefixes, d \in DigitGroups}

Table == OtherTypes \cup OtherWords \cup ReservedKeywords

Capitalize(w) == [i \in 1..Len(w) |-> IF i = 1 THEN ToUpper(w[i]) ELSE w[i]]
AllUpper(w)   == [i \in 1..Len(w) |-> ToUpper(w[i])]

CaseVariants == {Capitalize(w) : w \in Table} \cup {AllUpper(w) : w \in Table}

Affixes == {"s", "t", "8", "_", "U+0663"}

ExtraCharVariants ==
    LET base == Table \cup {Str_uint \o <<"8">>, Str_int \o <<"1","6">>,
                            Str_bytes \o <<"3","2">>, Str_bytes}
    IN  {w \o <<c>> : w \in base, c \in Affixes} \cup
        {<<c>> \o w : w \in base, c \in Affixes}

PlainNames ==
    {<<>>, Str_foo, <<"x">>, <<"_">>, <<"8">>, Str_bytes,
     <<"u","i","n","t","_","8">>, <<"u","i","n","t"," ","8">>,
     <<"U","i","n","t","8">>, <<"B","y","t","e","s","4">>}

Names == Table \cup NumericNames \cup CaseVariants \cup ExtraCharVariants \cup PlainNames

-----------------------------------------------------------------------------
(* One call of underscore_if_sol, statement by statement *)

IdlePrint ==
    /\ entity = [pieces |-> <<>>, fails |-> FALSE]
    /\ ppc = "idle" /\ out = <<>> /\ fpos = 0 /\ fmtCalls = 0 /\ fmtRes = "none"

IdleThreads ==
    /\ regex = [r \in {"UINT_REGEX", "INT_REGEX", "BYTES_REGEX"} |-> "uninit"]
    /\ inits = [r \in {"UINT_REGEX", "INT_REGEX", "BYTES_REGEX"} |-> 0]
    /\ tname = [t \in 1..NumThreads |-> <<>>]
    /\ tpc = [t \in 1..NumThreads |-> "idle"]
    /\ tres = [t \in 1..NumThreads |-> <<>>]

IdleEscaper ==
    /\ name = <<>> /\ pc = "idle" /\ result = <<>> /\ round = 1 /\ first = <<>>

Init ==
    /\ name \in Names
    /\ pc = "uint"
    /\ result = <<>>
    /\ round = 1
    /\ first = <<>>
    /\ IdlePrint
    /\ IdleThreads

\* if let Some(caps) = UINT_REGEX.captures(name) { ... }
CheckUint ==
    /\ pc = "uint"
    /\ LET b == BitsBranch(UINT_REGEX, name)
       IN  /\ pc' = (CASE b = "Return" -> "done" [] b = "Panic" -> "panic" [] OTHER -> "int")
           /\ result' = IF b = "Return" THEN underscore(name) ELSE result
    /\ UNCHANGED <<name, round, first, prtVars, thrVars>>

\* if let Some(caps) = INT_REGEX.captures(name) { ... }
CheckInt ==
    /\ pc = "int"
    /\ LET b == BitsBranch(INT_REGEX, name)
       IN  /\ pc' = (CASE b = "Return" -> "done" [] b = "Panic" -> "panic" [] OTHER -> "bytes")
           /\ result' = IF b = "Return" THEN underscore(name) ELSE result
    /\ UNCHANGED <<name, round, first, prtVars, thrVars>>

\* if let Some(caps) = BYTES_REGEX.captures(name) { ... }
CheckBytes ==
    /\ pc = "bytes"
    /\ LET b == BytesBranch(name)
       IN  /\ pc' = (CASE b = "Return" -> "done" [] b = "Panic" -> "panic" [] OTHER -> "match")
           /\ result' = IF b = "Return" THEN underscore(name) ELSE result
    /\ UNCHANGED <<name, round, first, prtVars, thrVars>>

\* match name { ... }
DoMatch ==
    /\ pc = "match"
    /\ pc' = "done"
    /\ result' = MatchName(name)
    /\ UNCHANGED <<name, round, first, prtVars, thrVars>>

\* The caller emits the escaped identifier (the result without its separator
\* space) and the escaper is called on that identifier.
Reapply ==
    /\ pc = "done"
    /\ round = 1
    /\ result = underscore(name)
    /\ name' = Tail(result)
    /\ first' = result
    /\ round' = 2
    /\ pc' = "uint"
    /\ result' = <<>>
    /\ UNCHANGED <<prtVars, thrVars>>

Next == CheckUint \/ CheckInt \/ CheckBytes \/ DoMatch \/ Reapply

Spec == Init /\ [][Next]_vars

-----------------------------------------------------------------------------
(* Properties of underscore_if_sol *)

Finished == pc \in {"done", "panic"}

\* The decimal value of an ASCII digit group, modulo m, from the digits alone.
RECURSIVE DecMod(_, _)
DecMod(d, m) ==
    IF d = <<>> THEN 0
    ELSE (DecMod(SubSeq(d, 1, Len(d) - 1), m) * 10 + DigitValue(d[Len(d)])) % m

RECURSIVE StripZeros(_)
StripZeros(d) == IF d # <<>> /\ d[1] = "0" THEN StripZeros(Tail(d)) ELSE d

\* The decimal value of an ASCII digit group is at most 32.
DecLeq32(d) ==
    LET z == StripZeros(d)
    IN  \/ Len(z) <= 1
        \/ Len(z) = 2 /\ DigitValue(z[1]) * 10 + DigitValue(z[2]) <= 32

IsAsciiGroup(d) == d # <<>> /\ \A i \in 1..Len(d) : d[i] \in AsciiDigits

\* n is p followed by a decimal width
IsWidthName(n, p) ==
    StartsWith(n, p) /\ IsAsciiGroup(SubSeq(n, Len(p) + 1, Len(n)))

WidthOf(n, p) == SubSeq(n, Len(p) + 1, Len(n))

\* n is one of the reserved numeric type names
NumericReserved(n) ==
    \/ IsWidthName(n, Str_uint)  /\ DecMod(WidthOf(n, Str_uint), 8) = 0
    \/ IsWidthName(n, Str_int)   /\ DecMod(WidthOf(n, Str_int), 8) = 0
    \/ IsWidthName(n, Str_bytes) /\ DecLeq32(WidthOf(n, Str_bytes))

\* C1: underscore_if_sol is total: whatever the name, the call never aborts
\* (the unwrap of the width parse never panics).
C1_Total == pc # "panic"

\* C2: for p in {uint, int} and every decimal width N, the call on p + N
\* returns " _" + p + N when N is divisible by 8 and " " + p + N otherwise.
C2_UintIntWidth ==
    \A p \in {Str_uint, Str_int} :
        (Finished /\ IsWidthName(name, p)) =>
            /\ pc = "done"
            /\ result = IF DecMod(WidthOf(name, p), 8) = 0
                        THEN <<" ", "_">> \o name
                        ELSE <<" ">> \o name

\* C3: for every decimal width N, the call on bytes + N returns " _bytes" + N
\* when N <= 32 and " bytes" + N when N > 32.
C3_BytesWidth ==
    (Finished /\ IsWidthName(name, Str_bytes)) =>
        /\ pc = "done"
        /\ result = IF DecLeq32(WidthOf(name, Str_bytes))
                    THEN <<" ", "_">> \o name
                    ELSE <<" ">> \o name

\* C5: every non-empty identifier that is no reserved numeric type name and no
\* word of the tables is returned as one space followed by the name.
C5_Unreserved ==
    (Finished /\ name # <<>> /\ name \notin Table /\ ~NumericReserved(name)) =>
        (pc = "done" /\ result = <<" ">> \o name)

\* C6: for every input the result is "", " " + name or " _" + name; it is ""
\* exactly when name is empty; a non-empty result starts with exactly one space
\* and ends with name.
C6_Shapes ==
    Finished =>
        /\ pc = "done"
        /\ result \in {<<>>, <<" ">> \o name, <<" ", "_">> \o name}
        /\ (result = <<>>) <=> (name = <<>>)

EndsWith(s, p) == Len(s) >= Len(p) /\ SubSeq(s, Len(s) - Len(p) + 1, Len(s)) = p

\* n differs from a word of the tables only in letter case
CaseVariantOnly(n) ==
    n \notin Table /\ [i \in 1..Len(n) |-> ToLower(n[i])] \in Table

\* n is a word of the tables with extra characters before or after it,
\* and is no word of the tables itself
ExtraCharsOnly(n) ==
    /\ n \notin Table
    /\ \E w \in Table : Len(n) > Len(w) /\ (StartsWith(n, w) \/ EndsWith(n, w))

GivenUnderscore == pc = "done" /\ result = <<" ", "_">> \o name

C10_FixedPoint ==
    /\ (round = 2 /\ Finished) =>
           (pc = "done" /\ result = first /\ result = <<" ">> \o name)
    /\ (Finished /\ name # <<>> /\ name[1] = "_") =>
           (pc = "done" /\ result = <<" ">> \o name)

C10_Witness ==
    /\ round = 2
    /\ pc = "done"
    /\ name = <<"_">> \o Str_uint \o <<"8">>
    /\ result = <<" ", "_">> \o Str_uint \o <<"8">>

-----------------------------------------------------------------------------
(* print_abi *)

\* The text of the five println! calls, newline included.
Line38 == "/**\n"
Line39 == " * This file was automatically generated by Stylus and represents a Rust program.\n"
Line40 == " * For more information, please see [The Stylus SDK](https://github.com/OffchainLabs/stylus-sdk-rs).\n"
Line41 == " */\n"
Line42_Missing == ""
Line42 == "\n"

\* The pieces an implementation of GenerateAbi::fmt_abi may write.
Pieces == {"function foo() external;", "interface IFoo {", "}\n"}

\* T::fmt_abi is supplied by the implementer: it writes some pieces to the
\* formatter and then returns Ok(()) or Err(fmt::Error).
Entities ==
    [pieces : UNION {[1..k -> Pieces] : k \in 0..MaxPieces}, fails : BOOLEAN]

\* A print! that ignores the fmt::Result of the Display implementation.
PrintOutcomeSwallow(res) == "returned"

\* print!("{}", ..): a formatting error makes the macro panic
\* ("failed printing to stdout"); otherwise print_abi returns ().
PrintOutcome(res) == IF res = "Err" THEN "panic" ELSE "returned"

InitPrint ==
    /\ entity \in Entities
    /\ ppc = "l38"
    /\ out = <<>>
    /\ fpos = 0
    /\ fmtCalls = 0
    /\ fmtRes = "none"
    /\ IdleEscaper
    /\ IdleThreads

Println(at, text, to) ==
    /\ ppc = at
    /\ out' = Append(out, text)
    /\ ppc' = to
    /\ UNCHANGED <<entity, fpos, fmtCalls, fmtRes, escVars, thrVars>>

PrintLine38 == Println("l38", Line38, "l39")
PrintLine39 == Println("l39", Line39, "l40")
PrintLine40 == Println("l40", Line40, "l41")
PrintLine41 == Println("l41", Line41, "l42")
PrintLine42 == Println("l42", Line42, "l43")

\* print!("{}", AbiPrinter::<T>(PhantomData)) formats its argument:
\* AbiPrinter::fmt calls T::fmt_abi(f).
CallFmtAbi ==
    /\ ppc = "l43"
    /\ ppc' = "fmt_abi"
    /\ fmtCalls' = fmtCalls + 1
    /\ UNCHANGED <<entity, out, fpos, fmtRes, escVars, thrVars>>

\* T::fmt_abi writes its next piece; the formatter passes it to stdout.
FmtAbiWrite ==
    /\ ppc = "fmt_abi"
    /\ fpos < Len(entity.pieces)
    /\ out' = Append(out, entity.pieces[fpos + 1])
    /\ fpos' = fpos + 1
    /\ UNCHANGED <<entity, ppc, fmtCalls, fmtRes, escVars, thrVars>>

\* T::fmt_abi returns, AbiPrinter::fmt returns the same value, print! ends.
FmtAbiReturn ==
    /\ ppc = "fmt_abi"
    /\ fpos = Len(entity.pieces)
    /\ fmtRes' = IF entity.fails THEN "Err" ELSE "Ok"
    /\ ppc' = PrintOutcome(fmtRes')
    /\ UNCHANGED <<entity, out, fpos, fmtCalls, escVars, thrVars>>

NextPrint ==
    \/ PrintLine38 \/ PrintLine39 \/ PrintLine40 \/ PrintLine41 \/ PrintLine42
    \/ CallFmtAbi \/ FmtAbiWrite \/ FmtAbiReturn

SpecPrint == InitPrint /\ [][NextPrint]_vars

-----------------------------------------------------------------------------
(* Properties of print_abi *)

\* The provenance banner and the blank line, as the output format fixes them.
Banner ==
    << "/**\n",
       " * This file was automatically generated by Stylus and represents a Rust program.\n",
       " * For more information, please see [The Stylus SDK](https://github.com/OffchainLabs/stylus-sdk-rs).\n",
       " */\n",
       "\n" >>

IsPrefix(s, t) == Len(s) <= Len(t) /\ SubSeq(t, 1, Len(s)) = s

\* C7: when T::fmt_abi succeeds, one call of print_abi writes the four header
\* lines, one blank line and then exactly what T::fmt_abi wrote, nothing else
\* before, between or after; fmt_abi is invoked only once the header and the
\* blank line are written, and exactly once.
C7_Output ==
    /\ fmtCalls <= 1
    /\ fmtCalls = 1 => IsPrefix(Banner, out)
    /\ IsPrefix(out, Banner \o entity.pieces)
    /\ fmtRes = "Ok" =>
           /\ ppc = "returned"
           /\ fmtCalls = 1
           /\ out = Banner \o entity.pieces
    /\ ppc = "returned" => fmtRes = "Ok"

C7_Witness ==
    /\ ppc = "returned"
    /\ fmtRes = "Ok"
    /\ entity.pieces = <<"function foo() external;">>
    /\ out = Banner \o <<"function foo() external;">>

\* C8 as stated: when T::fmt_abi fails, print_abi fails with that same error,
\* returned to its caller as an error value: the call returns to its caller
\* (carrying the error) instead of unwinding.
C8_Original ==
    fmtRes = "Err" => ppc = "returned"

\* C8 (amended): when T::fmt_abi fails with a formatting error, print_abi
\* (whose return type is ()) returns no error value: the failure is not
\* swallowed but raised as the panic of print!; nothing further is written
\* after the failure, and the header and the part of the fragment written
\* before the failure stay on the sink.
C8_FailurePanics ==
    /\ fmtRes = "Err" =>
           /\ ppc = "panic"
           /\ fmtCalls = 1
           /\ out = Banner \o entity.pieces
    /\ ppc = "panic" => fmtRes = "Err"

C8_Witness ==
    /\ ppc = "panic"
    /\ fmtRes = "Err"
    /\ entity.pieces = <<"interface IFoo {">>
    /\ out = Banner \o <<"interface IFoo {">>

-----------------------------------------------------------------------------
(* Concurrent callers and the lazy statics *)

Statics == {"UINT_REGEX", "INT_REGEX", "BYTES_REGEX"}
Threads == 1..NumThreads

\* The names the concurrent callers pass.
ConcNames ==
    {<<>>, Str_uint \o <<"8">>, Str_int \o <<"7">>, Str_bytes \o <<"3","2">>,
     Str_uint \o Digits_Pow64}

\* The statement of underscore_if_sol that dereferences each static.
StageOf(r) ==
    CASE r = "UINT_REGEX" -> "uint" [] r = "INT_REGEX" -> "int" [] r = "BYTES_REGEX" -> "bytes"

InitStageOf(r) ==
    CASE r = "UINT_REGEX" -> "uint_init" [] r = "INT_REGEX" -> "int_init"
      [] r = "BYTES_REGEX" -> "bytes_init"

\* A lazy cell without the Once: every caller that finds the value not yet
\* stored runs the initialiser.
MayStartInitRacy(r) == regex[r] # "ready"

\* lazy_static!: the initialiser of a static is guarded by a Once; only the
\* caller that finds it never started runs it.
MayStartInit(r) == regex[r] = "uninit"

\* A dereference returns the &Regex once the Once is complete; while another
\* caller runs the initialiser the dereference blocks.
MayRead(r) == regex[r] = "ready"

InitConc ==
    /\ regex = [r \in Statics |-> "uninit"]
    /\ inits = [r \in Statics |-> 0]
    /\ tname \in [Threads -> ConcNames]
    /\ tpc = [t \in Threads |-> "uint"]
    /\ tres = [t \in Threads |-> <<>>]
    /\ IdleEscaper
    /\ IdlePrint

\* First dereference of a static: the caller enters the Once.
LazyStart(t) ==
    \E r \in Statics :
        /\ tpc[t] = StageOf(r)
        /\ MayStartInit(r)
        /\ regex' = [regex EXCEPT ![r] = "running"]
        /\ tpc' = [tpc EXCEPT ![t] = InitStageOf(r)]
        /\ UNCHANGED <<inits, tname, tres, escVars, prtVars>>

\* The initialiser Regex::new(..).unwrap() has run and its value is stored.
LazyFinish(t) ==
    \E r \in Statics :
        /\ tpc[t] = InitStageOf(r)
        /\ regex' = [regex EXCEPT ![r] = "ready"]
        /\ inits' = [inits EXCEPT ![r] = @ + 1]
        /\ tpc' = [tpc EXCEPT ![t] = StageOf(r)]
        /\ UNCHANGED <<tname, tres, escVars, prtVars>>

Branch(t, b, next) ==
    /\ tpc' = [tpc EXCEPT ![t] =
                  CASE b = "Return" -> "done" [] b = "Panic" -> "panic" [] OTHER -> next]
    /\ tres' = [tres EXCEPT ![t] = IF b = "Return" THEN underscore(tname[t]) ELSE @]
    /\ UNCHANGED <<regex, inits, tname, escVars, prtVars>>

TCheckUint(t) ==
    /\ tpc[t] = "uint"
    /\ MayRead("UINT_REGEX")
    /\ Branch(t, BitsBranch(UINT_REGEX, tname[t]), "int")

TCheckInt(t) ==
    /\ tpc[t] = "int"
    /\ MayRead("INT_REGEX")
    /\ Branch(t, BitsBranch(INT_REGEX, tname[t]), "bytes")

TCheckBytes(t) ==
    /\ tpc[t] = "bytes"
    /\ MayRead("BYTES_REGEX")
    /\ Branch(t, BytesBranch(tname[t]), "match")

TMatch(t) ==
    /\ tpc[t] = "match"
    /\ tpc' = [tpc EXCEPT ![t] = "done"]
    /\ tres' = [tres EXCEPT ![t] = MatchName(tname[t])]
    /\ UNCHANGED <<regex, inits, tname, escVars, prtVars>>

NextConc ==
    \E t \in Threads :
        \/ LazyStart(t) \/ LazyFinish(t)
        \/ TCheckUint(t) \/ TCheckInt(t) \/ TCheckBytes(t) \/ TMatch(t)

SpecConc == InitConc /\ [][NextConc]_vars

-----------------------------------------------------------------------------
(* Properties of the lazy statics *)

\* The stages at which a caller has already used static r.
PastUse(r) ==
    CASE r = "UINT_REGEX"  -> {"int", "int_init", "bytes", "bytes_init", "match"}
      [] r = "INT_REGEX"   -> {"bytes", "bytes_init", "match"}
      [] r = "BYTES_REGEX" -> {"match"}

C9_State ==
    /\ \A r \in Statics : inits[r] <= 1
    /\ \A r \in Statics : (regex[r] = "ready") <=> (inits[r] = 1)
    /\ \A r \in Statics : \A t \in Threads : tpc[t] \in PastUse(r) => regex[r] = "ready"
    /\ \A t \in Threads :
           /\ tpc[t] = "done" =>
                  underscore_if_sol(tname[t]) = [kind |-> "Ok", val |-> tres[t]]
           /\ tpc[t] = "panic" => underscore_if_sol(tname[t]).kind = "Panic"

C9_Step ==
    \A r \in Statics :
        regex[r] = "ready" => (regex'[r] = "ready" /\ inits'[r] = inits[r])

\* C9: with several threads calling underscore_if_sol before the matchers are
\* built, each matcher is initialised at most once, a caller uses a matcher
\* only when it is fully initialised, a matcher is never modified once
\* initialised, and every call ends as it does when run alone.
C9_LazyOnce == [](C9_State) /\ [][C9_Step]_vars

\* Two callers contend for INT_REGEX: one runs its initialiser, the other is
\* blocked at its dereference; UINT_REGEX has been built once and used by both.
C9_Witness ==
    /\ regex["UINT_REGEX"] = "ready" /\ inits["UINT_REGEX"] = 1
    /\ regex["INT_REGEX"] = "running" /\ inits["INT_REGEX"] = 0
    /\ tpc[1] = "int_init"
    /\ tpc[2] = "int"

====
